---- MODULE Spec2Model ----
(***************************************************************************)
(* Model of ext_temperature (post_proc/py/interpolations/to_Lorenz.py):    *)
(* the two-pass vertical extrapolation of a temperature field given on     *)
(* pressure levels.  One action is one iteration of one of the two loops.  *)
(*                                                                         *)
(* Units.  Pressures are integers in 1/100 hPa (226.32 hPa = 22632).       *)
(* Standard heights are integers in metres.  Lapse rates are in 1/10 K per *)
(* km (6.5 = 65), so that lapse * dz is in 1/10000 K; cell values are      *)
(* integers in 1/10000 K (290 K = 2900000).                                *)
(*                                                                         *)
(* A cell is the empty tuple (NaN, missing) or a one-element tuple <<v>>.  *)
(***************************************************************************)
EXTENDS Integers, Sequences, FiniteSets, TLC

\* ------------------------------------------------------------------ bounds
MaxLevels == 3
NPos == 2
MaxCalls == 2
\* most levels missing at the top and at the bottom of a column on main's levels
MaxTopGap == 1
MaxBottomGap == 1

\* --------------------------------------------------------- units and cells
NaN == <<>>
Num(v) == <<v>>
IsNaN(c) == c = NaN
Val(c) == c[1]

\* fillna(-99999): the sentinel, in cell units
Sentinel == (0 - 99999) * 10000
\* the + 99999 of lines 105 and 140, in cell units
Plus99999 == 99999 * 10000

\* values a present input cell takes in the model: 290 K and the number the
\* code uses as its sentinel
T290 == 290 * 10000
InputVals == {T290, Sentinel}
Cells == {NaN} \cup {Num(v) : v \in InputVals}

\* pressure levels the caller may choose from (1/100 hPa):
\* 5, 10, 30, 50, 52, 100, 500, 1000 hPa
LevelPool == {500, 1000, 3000, 5000, 5200, 10000, 50000, 100000}

\* pressure_to_height_std (ICAO standard atmosphere, troposphere formula
\* 44330.8 * (1 - (p/1013.25)^0.190263)), in metres, tabulated on LevelPool
\* and on the levels of main
StdHeight(p) ==
    CASE p = 500 -> 28194
      [] p = 1000 -> 25919
      [] p = 2000 -> 23324
      [] p = 3000 -> 21639
      [] p = 5000 -> 19323
      [] p = 5200 -> 19135
      [] p = 7000 -> 17669
      [] p = 10000 -> 15797
      [] p = 12500 -> 14560
      [] p = 15000 -> 13509
      [] p = 17500 -> 12592
      [] p = 20000 -> 11775
      [] p = 22500 -> 11037
      [] p = 25000 -> 10363
      [] p = 30000 -> 9164
      [] p = 35000 -> 8117
      [] p = 40000 -> 7185
      [] p = 45000 -> 6344
      [] p = 50000 -> 5574
      [] p = 55000 -> 4865
      [] p = 60000 -> 4206
      [] p = 65000 -> 3591
      [] p = 70000 -> 3012
      [] p = 75000 -> 2466
      [] p = 77500 -> 2204
      [] p = 80000 -> 1949
      [] p = 82500 -> 1700
      [] p = 85000 -> 1457
      [] p = 87500 -> 1220
      [] p = 90000 -> 989
      [] p = 92500 -> 762
      [] p = 95000 -> 540
      [] p = 97500 -> 323
      [] p = 100000 -> 111

\* -------------------------------------------------------- float arithmetic
\* IEEE addition and multiplication as far as the code relies on them: NaN
\* propagates, everything else is exact on the model's integers
AddF(a, b) == IF IsNaN(a) \/ IsNaN(b) THEN NaN ELSE Num(Val(a) + Val(b))

\* ----------------------------------------------------------------- sorting
RECURSIVE Insert(_, _)
Insert(s, e) ==
    IF s = <<>> THEN <<e>>
    ELSE IF e <= Head(s) THEN <<e>> \o s
    ELSE <<Head(s)>> \o Insert(Tail(s), e)

\* the list left in the caller's order
NpSortUnsorted(s) == s

RECURSIVE NpSort(_)
\* np.sort(plevs): ascending
NpSort(s) == IF s = <<>> THEN <<>> ELSE Insert(NpSort(Tail(s)), Head(s))

\* plevs_sorted[::-1]
Reversed(s) == [k \in 1..Len(s) |-> s[Len(s) + 1 - k]]

\* Python indexing of a sequence of length n by j in -n..n-1, as the
\* 1-based index of the element it denotes (a negative j counts from the end)
PyIndex(j, n) == IF j < 0 THEN n + j + 1 ELSE j + 1

\* ------------------------------------------------------------- lapse rates
\* the -1 band beginning at the 50 hPa of the gate instead of at 54.74 hPa
LapseTopDownAt50(lev) ==
    IF lev >= 22632 THEN 65
    ELSE IF lev < 22632 /\ lev > 5000 THEN 0
    ELSE 0 - 10

\* lines 77-84, in 1/10 K per km
LapseTopDown(lev) ==
    IF lev >= 22632 THEN 65
    ELSE IF lev < 22632 /\ lev > 5474 THEN 0
    ELSE 0 - 10

\* lines 120-123, in 1/10 K per km
LapseBottomUp(lev) == IF lev >= 868 THEN 0 - 28 ELSE 0

\* ------------------------------------------------------------------- state
VARIABLES
    plevs,      \* pressure_levels as supplied; the field's level dimension
                \* is in this same order (main builds both from one list)
    t_isob_z,   \* the field: [storage position of level -> [position -> cell]]
    t_in,       \* the field as it was when the current call began
    pc,         \* "top_down", "bottom_up" or "done"
    i,          \* loop index of the running loop (0-based, as in the code)
    visited,    \* levels visited so far in the current call, with their pass
    calls       \* number of calls of ext_temperature begun so far

vars == <<plevs, t_isob_z, t_in, pc, i, visited, calls>>

N == Len(plevs)
plevs_sorted == NpSort(plevs)
bottom_top == Reversed(plevs_sorted)

\* .sel(level=lev): storage position of the level with coordinate lev
SelLevel(lev) == CHOOSE k \in 1..N : plevs[k] = lev

\* np.isnan(t_p.values).any()
AnyNaN(t_p) == \E x \in 1..NPos : IsNaN(t_p[x])

\* lines 93-108 and 128-143: fill level lev of field f from the level stored
\* at position seedPos
FillLevel(f, lev, seedPos, lapse) ==
    LET t_p == f[SelLevel(lev)]
        dummy == [x \in 1..NPos |-> IF IsNaN(t_p[x]) THEN Num(Sentinel) ELSE t_p[x]]
        nans == [x \in 1..NPos |-> IF dummy[x] = Num(Sentinel) THEN dummy[x] ELSE NaN]
        t_seed == f[seedPos]
        dz == StdHeight(plevs[seedPos]) - StdHeight(lev)
        dtemp == Num(dz * lapse)
        extp_temp == [x \in 1..NPos |->
                        AddF(AddF(AddF(nans[x], Num(Plus99999)), t_seed[x]), dtemp)]
    IN [f EXCEPT ![SelLevel(lev)] =
            [x \in 1..NPos |-> IF dummy[x] # Num(Sentinel) THEN dummy[x] ELSE extp_temp[x]]]

\* the first loop's gate without its pressure test
GateTopDownAnyLevel(f, lev) == AnyNaN(f[SelLevel(lev)])

\* the first loop's gate letting the 50 hPa level in
GateTopDownFrom50(f, lev) == AnyNaN(f[SelLevel(lev)]) /\ lev >= 5000

\* gate of the first loop, line 90
GateTopDown(f, lev) == AnyNaN(f[SelLevel(lev)]) /\ lev > 5000

\* gate of the second loop, line 125
GateBottomUp(f, lev) == AnyNaN(f[SelLevel(lev)]) /\ lev < 5000

\* the seed read at index i instead of i-1
SeedPosTopDownSelf(j) == PyIndex(j, N)

\* t_isob_z.isel(level=i-1): positional index into the field's level dimension
SeedPosTopDown(j) == PyIndex(j - 1, N)

\* t_isob_z.sel(level=bottom_top[i-1])
SeedPosBottomUp(j) == SelLevel(bottom_top[PyIndex(j - 1, N)])

\* one iteration of the first loop on field f
TopDownBody(f, j) ==
    LET lev == plevs_sorted[j + 1]
    IN IF GateTopDown(f, lev)
       THEN FillLevel(f, lev, SeedPosTopDown(j), LapseTopDown(lev))
       ELSE f

\* one iteration of the second loop on field f
BottomUpBody(f, j) ==
    LET lev == bottom_top[j + 1]
    IN IF GateBottomUp(f, lev)
       THEN FillLevel(f, lev, SeedPosBottomUp(j), LapseBottomUp(lev))
       ELSE f

RECURSIVE TopDownFrom(_, _)
\* the first loop from iteration j on
TopDownFrom(f, j) == IF j >= N THEN f ELSE TopDownFrom(TopDownBody(f, j), j + 1)

RECURSIVE BottomUpFrom(_, _)
\* the second loop from iteration j on
BottomUpFrom(f, j) == IF j >= N THEN f ELSE BottomUpFrom(BottomUpBody(f, j), j + 1)

\* the value ext_temperature returns for field f
ExtTemperature(f) == BottomUpFrom(TopDownFrom(f, 0), 0)

\* ----------------------------------------------------------------- actions
TopDownStep ==
    /\ pc = "top_down"
    /\ i < N
    /\ t_isob_z' = TopDownBody(t_isob_z, i)
    /\ visited' = Append(visited, [pass |-> "top_down", lev |-> plevs_sorted[i + 1]])
    /\ IF i + 1 < N
       THEN /\ i' = i + 1
            /\ pc' = pc
       ELSE /\ i' = 0
            /\ pc' = "bottom_up"
    /\ UNCHANGED <<plevs, t_in, calls>>

BottomUpStep ==
    /\ pc = "bottom_up"
    /\ i < N
    /\ t_isob_z' = BottomUpBody(t_isob_z, i)
    /\ visited' = Append(visited, [pass |-> "bottom_up", lev |-> bottom_top[i + 1]])
    /\ IF i + 1 < N
       THEN /\ i' = i + 1
            /\ pc' = pc
       ELSE /\ i' = 0
            /\ pc' = "done"
    /\ UNCHANGED <<plevs, t_in, calls>>

\* ext_temperature is called again on the field it returned
CallAgain ==
    /\ pc = "done"
    /\ calls < MaxCalls
    /\ pc' = "top_down"
    /\ i' = 0
    /\ t_in' = t_isob_z
    /\ visited' = <<>>
    /\ calls' = calls + 1
    /\ UNCHANGED <<plevs, t_isob_z>>

\* ------------------------------------------------------------ initial state
Fields(n) == [1..n -> [1..NPos -> Cells]]

LevelSets == {S \in SUBSET LevelPool : Cardinality(S) \in 1..MaxLevels}

\* the orders in which the caller may list the levels of S
Orders(S) == {s \in [1..Cardinality(S) -> S] : \A a, b \in 1..Cardinality(S) : a # b => s[a] # s[b]}

IsAscending(s) == \A k \in 1..(Len(s) - 1) : s[k] < s[k + 1]

InitRest ==
    /\ t_isob_z \in Fields(Len(plevs))
    /\ t_in = t_isob_z
    /\ pc = "top_down"
    /\ i = 0
    /\ visited = <<>>
    /\ calls = 1

\* the caller supplies the levels in ascending order, as main does
Init ==
    /\ \E S \in LevelSets : plevs \in {s \in Orders(S) : IsAscending(s)}
    /\ InitRest

\* the caller supplies the levels in any order; the field's level dimension
\* follows the caller's order
InitAnyOrder ==
    /\ \E S \in LevelSets : plevs \in Orders(S)
    /\ InitRest

\* plevs of main, lines 180-183: 32 levels from 10 to 1000 hPa (1/100 hPa)
RefLevels ==
    <<1000, 2000, 3000, 5000, 7000,
      10000, 12500, 15000, 17500, 20000, 22500, 25000, 30000, 35000, 40000,
      45000, 50000, 55000, 60000, 65000, 70000, 75000, 77500, 80000, 82500,
      85000, 87500, 90000, 92500, 95000, 97500, 100000>>

\* a field on the levels of main as interplevel leaves it: at each position
\* the topmost top[x] levels (above the model top) and the lowest bottom[x]
\* levels (below the topography) are missing, the rest hold v
RefField(top, bottom, v) ==
    [k \in 1..Len(RefLevels) |->
        [x \in 1..NPos |->
            IF k <= top[x] \/ k > Len(RefLevels) - bottom[x] THEN NaN ELSE Num(v)]]

\* main's call: the 32 reference levels, gaps at the top and at the bottom
InitRef ==
    /\ plevs = RefLevels
    /\ \E top \in [1..NPos -> 0..MaxTopGap], bottom \in [1..NPos -> 0..MaxBottomGap],
          v \in InputVals :
            t_isob_z = RefField(top, bottom, v)
    /\ t_in = t_isob_z
    /\ pc = "top_down"
    /\ i = 0
    /\ visited = <<>>
    /\ calls = 1

Next == TopDownStep \/ BottomUpStep \/ CallAgain

Spec == Init /\ [][Next]_vars

SpecAnyOrder == InitAnyOrder /\ [][Next]_vars

SpecRef == InitRef /\ [][Next]_vars

\* ------------------------------------------------- vocabulary of the claims
Levels == {plevs[k] : k \in 1..N}
Positions == 1..NPos

\* cell of field f at pressure level lev, horizontal position x
Cell(f, lev, x) == f[SelLevel(lev)][x]
Missing(f, lev, x) == IsNaN(Cell(f, lev, x))
Present(f, lev, x) == ~IsNaN(Cell(f, lev, x))

HasLower(lev) == \E l \in Levels : l < lev
HasHigher(lev) == \E l \in Levels : l > lev
\* the adjacent levels by pressure
NextLower(lev) == CHOOSE l \in Levels : l < lev /\ \A m \in Levels : m < lev => m <= l
NextHigher(lev) == CHOOSE l \in Levels : l > lev /\ \A m \in Levels : m > lev => m >= l

Returned == pc = "done"

\* a gap of f lies in the middle of the level range: both adjacent levels
\* exist and hold a value at the same position
MiddleGap(f, lev, x) ==
    /\ HasLower(lev) /\ Present(f, NextLower(lev), x)
    /\ HasHigher(lev) /\ Present(f, NextHigher(lev), x)

MiddleGapsOnly(f) ==
    \A lev \in Levels, x \in Positions : Missing(f, lev, x) => MiddleGap(f, lev, x)

NoMissing(f) == \A lev \in Levels, x \in Positions : Present(f, lev, x)

\* ---------------------------------------------------------------------- C1
\* C1 (completeness): when every gap of the input field lies in the middle
\* of the level range (both adjacent levels present at the same position),
\* the returned field has no missing cell, whatever the pressure of the
\* level that holds the gap.
C1_Completeness ==
    (Returned /\ MiddleGapsOnly(t_in)) => NoMissing(t_isob_z)

\* ---------------------------------------------------------------------- C2
\* C2 (no overwrite of present data): every cell that is present when
\* ext_temperature is called has the same value in the returned field,
\* whatever number it holds; a field without missing cells is returned
\* unchanged by every call.
C2_NoOverwrite ==
    Returned =>
        \A lev \in Levels, x \in Positions :
            Present(t_in, lev, x) => Cell(t_isob_z, lev, x) = Cell(t_in, lev, x)

\* ---------------------------------------------------------------------- C3
FirstOfPass == i = 0 /\ pc \in {"top_down", "bottom_up"}
FirstLevel == IF pc = "top_down" THEN plevs_sorted[1] ELSE bottom_top[1]

\* C3 (boundary left unresolved): the visit of the first level of a pass,
\* which has no predecessor in the sweep, leaves every missing cell of that
\* level missing; it is not filled from the level the index -1 wraps to.
C3_BoundaryLeftMissing ==
    [][FirstOfPass =>
         \A x \in Positions :
            Missing(t_isob_z, FirstLevel, x) => IsNaN(t_isob_z'[SelLevel(FirstLevel)][x])]_vars

\* ---------------------------------------------------------------------- C4
AdjacentPresent(f, lev, x) ==
    \/ HasLower(lev) /\ Present(f, NextLower(lev), x)
    \/ HasHigher(lev) /\ Present(f, NextHigher(lev), x)

\* C4: a cell that is missing on input, with the same-position cell of at
\* least one adjacent pressure level present on input, is present in the
\* returned field.
C4_AdjacentSeedFills ==
    Returned =>
        \A lev \in Levels, x \in Positions :
            (Missing(t_in, lev, x) /\ AdjacentPresent(t_in, lev, x))
                => Present(t_isob_z, lev, x)

\* ---------------------------------------------------------------------- C5
\* L is the only level of f with missing cells, and it has a level on
\* either side
SingleMissingLevel(f, L) ==
    /\ AnyNaN(f[SelLevel(L)])
    /\ \A l \in Levels \ {L} : ~AnyNaN(f[SelLevel(l)])
    /\ HasLower(L) /\ HasHigher(L)

\* seed + lapse x (height of the seed level - height of L), lapse in 1/10 K/km
SeedPlusLapse(f, seedLev, L, x, lapse) ==
    Num(Val(Cell(f, seedLev, x)) + lapse * (StdHeight(seedLev) - StdHeight(L)))

ScenarioA(f, x) ==
    /\ plevs = <<10000, 50000, 100000>>
    /\ Missing(f, 10000, x)
    /\ Missing(f, 50000, x)
    /\ Cell(f, 100000, x) = Num(T290)

C7_Step ==
    \A k \in 1..N, x \in Positions :
        t_isob_z'[k][x] # t_isob_z[k][x] =>
            /\ pc \in {"top_down", "bottom_up"}
            /\ AnyNaN(t_isob_z[k])
            /\ pc = "top_down" => plevs[k] = plevs_sorted[i + 1] /\ plevs[k] > 5000
            /\ pc = "bottom_up" => plevs[k] = bottom_top[i + 1] /\ plevs[k] < 5000

\* C7 (gate split at 50 hPa): the first loop changes no cell at a level of
\* 50 hPa or less, the second none at a level of 50 hPa or more, neither
\* changes a level that has no missing cell when visited; so a level of
\* exactly 50 hPa always is as it was when the call began.
C7_GateSplit ==
    /\ [][C7_Step]_vars
    /\ [](\A k \in 1..N : plevs[k] = 5000 => t_isob_z[k] = t_in[k])

\* a call has returned that changed the field and left a gap at 50 hPa
C7_Witness ==
    /\ Returned
    /\ t_isob_z # t_in
    /\ \E k \in 1..N : plevs[k] = 5000 /\ AnyNaN(t_isob_z[k])

\* ---------------------------------------------------------------------- C8
\* C8 (level ordering): the first loop visits every level once in strictly
\* ascending pressure order, the second loop then visits every level once in
\* strictly descending pressure order, no visit of the second loop precedes
\* the last of the first, and the call returns after exactly 2N visits, in
\* whatever order the caller gave the levels.
C8_LevelOrder ==
    LET n == Len(visited)
    IN /\ n <= 2 * N
       /\ Returned <=> n = 2 * N
       /\ pc = "top_down" <=> n < N
       /\ \A k \in 1..n :
            visited[k].pass = (IF k <= N THEN "top_down" ELSE "bottom_up")
       /\ \A k \in 1..(n - 1) :
            /\ k < N => visited[k].lev < visited[k + 1].lev
            /\ k > N => visited[k].lev > visited[k + 1].lev
       /\ n >= N => {visited[k].lev : k \in 1..N} = Levels
       /\ n = 2 * N => {visited[k].lev : k \in (N + 1)..(2 * N)} = Levels

\* a call on three levels supplied in descending order has returned
C8_Witness ==
    /\ Returned
    /\ N = 3
    /\ plevs[1] > plevs[2] /\ plevs[2] > plevs[3]

\* ---------------------------------------------------------------------- C9
AfterTopDown == pc = "bottom_up" /\ i = 0

\* the levels with pressure in (a, b]
Between(a, b) == {l \in Levels : a < l /\ l <= b}

\* C9 (cumulative propagation): a cell present on input at level a, missing
\* at the consecutive next-higher-pressure levels up to b, all above 50 hPa:
\* after the first loop each of these cells is present and equals the value
\* then held by the level immediately above it plus lapse x height
\* difference.  Symmetrically a run of missing cells below 50 hPa lying
\* above a present level is completely filled when the call returns.
C9_CumulativePropagation ==
    /\ AfterTopDown =>
         \A a \in Levels, b \in Levels, x \in Positions :
            (/\ a < b
             /\ Present(t_in, a, x)
             /\ \A l \in Between(a, b) : l > 5000 /\ Missing(t_in, l, x))
            => \A l \in Between(a, b) :
                  /\ Present(t_isob_z, l, x)
                  /\ Cell(t_isob_z, l, x) =
                        SeedPlusLapse(t_isob_z, NextLower(l), l, x,
                            IF l >= 22632 THEN 65
                            ELSE IF l > 5474 THEN 0 ELSE 0 - 10)
    /\ Returned =>
         \A a \in Levels, b \in Levels, x \in Positions :
            (/\ b < a
             /\ Present(t_in, a, x)
             /\ \A l \in Levels : (b <= l /\ l < a) => (l < 5000 /\ Missing(t_in, l, x)))
            => \A l \in Levels : (b <= l /\ l < a) => Present(t_isob_z, l, x)

\* --------------------------------------------------------------------- C10
\* f and g hold the same column at position x
SameColumn(f, g, x) == \A k \in 1..N : f[k][x] = g[k][x]

\* C10 (column independence): every field that agrees with the input on the
\* column at position x is returned with the same column at x.
C10_ColumnIndependence ==
    Returned =>
        \A x \in Positions :
            \A g \in Fields(N) :
                SameColumn(g, t_in, x) => SameColumn(ExtTemperature(g), t_isob_z, x)

\* --------------------------------------------------------------------- C11
\* the level whose cells the running iteration fills, if it fills any
FillsNow ==
    \/ pc = "top_down" /\ GateTopDown(t_isob_z, plevs_sorted[i + 1])
    \/ pc = "bottom_up" /\ GateBottomUp(t_isob_z, bottom_top[i + 1])

\* C11: on the 32 levels of main (10 to 1000 hPa) no fill reads its seed
\* through the wrapped index -1: the first iteration of either loop fills
\* nothing and leaves the field as it is, and every iteration that fills
\* reads its seed from the level adjacent in the sweep direction (the next
\* lower-pressure level in the first loop, the next higher-pressure level
\* in the second).
C11_NoWrappedSeed ==
    [][/\ plevs = RefLevels
       /\ FirstOfPass => (~FillsNow /\ t_isob_z' = t_isob_z)
       /\ FillsNow =>
            /\ i >= 1
            /\ pc = "top_down" =>
                  plevs[SeedPosTopDown(i)] = NextLower(plevs_sorted[i + 1])
            /\ pc = "bottom_up" =>
                  plevs[SeedPosBottomUp(i)] = NextHigher(bottom_top[i + 1])]_vars

\* a call on main's levels has returned that found gaps at 10 hPa and at
\* 1000 hPa and filled both
C11_Witness ==
    /\ Returned
    /\ plevs = RefLevels
    /\ \E x \in Positions :
          /\ Missing(t_in, 1000, x) /\ Present(t_isob_z, 1000, x)
          /\ Missing(t_in, 100000, x) /\ Present(t_isob_z, 100000, x)

====
